---- MODULE Spec2Model ----
(***************************************************************************)
(* EasyPrivateVoting (src/src/main.nr): a ballot contract with a private   *)
(* entry point (cast_vote) that pushes a per-voter nullifier and enqueues  *)
(* a public call (add_to_tally_public), an admin-gated public entry point  *)
(* (end_vote), a public initializer and four read-only accessors.          *)
(*                                                                         *)
(* The contract runs on a transaction host that this repository does not   *)
(* contain.  The host is modelled as spec.md sections 5 and 6 describe     *)
(* it: a global nullifier set with insert-if-absent semantics and a        *)
(* per-transaction atomic commit of the nullifier insertion together with  *)
(* the enqueued public calls.                                              *)
(*                                                                         *)
(* Tally values are Noir Fields (a prime field of about 2^254 elements);   *)
(* the model counts with unbounded integers since no reachable tally       *)
(* comes anywhere near the modulus.                                        *)
(***************************************************************************)
EXTENDS Integers, FiniteSets, Sequences, Bags, TLC

\* ---------------------------------------------------------------- bounds
MaxAddress == 2
MaxCandidate == 2
MaxPending == 2
MaxBlock == 2
MaxAccount == 3

\* the accounts that exist on the ledger, and those among them that act in Spec
Accounts == 1..MaxAccount
Addresses == 1..MaxAddress
Candidates == 1..MaxCandidate
Blocks == 1..MaxBlock

\* AztecAddress::zero(), the value an unwritten PublicMutable<AztecAddress> reads as
ZeroAddress == 0

\* context.this_address(): the ballot's own address, distinct from every account
ThisAddress == MaxAccount + 1

VARIABLES
    storage,        \* the Storage struct: admin, tally, vote_ended, active_at_block
    initialized,    \* whether the #[initializer] has run
    nullifiers,     \* the host's global nullifier set
    pending,        \* bag of transactions whose private phase ran, not yet included
    result,         \* operation and outcome of the last transaction attempt that resolved
    contributed,    \* history: tally increments committed on behalf of each voter
    admin_ended     \* history: an end_vote whose caller was the admin has committed

\* the dapp's objects, a record of their fields:
\*   pxe                   AztecWallet.pxe is assigned
\*   connectedAccount      AztecWallet.connectedAccount: "null" or the account
\*   localStorage          an account is stored under LocalStorageKey
\*   contract              PrivateVotingContractHandler.contract: "null" or "Contract"
\*   isLoading             useWallet's isLoading state
\*   inFlight              bag of async calls in flight, each at the await it is suspended on
\*   appResult             function and event of the last step of the dapp
\*   initialize_succeeded  history: an AztecWallet.initialize() call has returned
\*   artifact_registered   the PXE holds the private voting contract: what
\*                         isArtifactRegistered() reads
VARIABLES dapp

contractVars == <<storage, initialized, nullifiers, pending, result, contributed, admin_ended>>

vars == <<contractVars, dapp>>

pxe == dapp.pxe

connectedAccount == dapp.connectedAccount

localStorage == dapp.localStorage

contract == dapp.contract

isLoading == dapp.isLoading

inFlight == dapp.inFlight

appResult == dapp.appResult

initialize_succeeded == dapp.initialize_succeeded

artifact_registered == dapp.artifact_registered

\* ------------------------------------------------------- hashes and keys
\* std::hash::pedersen_hash: one-way and collision-free, modelled symbolically
pedersen_hash(inputs) == <<"pedersen", inputs>>

\* variant: the key is the account's own, the same for every contract
request_nsk_app_master(account, app) == <<"nsk_app", account>>

\* context.request_nsk_app(npk_m_hash): the caller's nullifier secret key,
\* siloed to the contract that requests it
request_nsk_app(account, app) == <<"nsk_app", account, app>>

\* ------------------------------------------------------ contract storage
EmptyStorage ==
    [admin |-> ZeroAddress,
     tally |-> [c \in Candidates |-> 0],
     vote_ended |-> FALSE,
     active_at_block |-> 0]

\* variant: the initializer leaves active_at_block unset
constructor_no_block(st, admin, blk) ==
    [st EXCEPT !.admin = admin, !.vote_ended = FALSE]

\* fn constructor(admin)
constructor(st, admin, blk) ==
    [st EXCEPT !.admin = admin, !.vote_ended = FALSE, !.active_at_block = blk]

\* the nullifier cast_vote derives for msg_sender
vote_nullifier(msg_sender) ==
    pedersen_hash(<<msg_sender, request_nsk_app(msg_sender, ThisAddress)>>)

\* variant: the nullifier also hashes the candidate
cast_vote_per_candidate(msg_sender, blk, candidate) ==
    [origin |-> msg_sender,
     nullifiers |-> {pedersen_hash(<<msg_sender, request_nsk_app(msg_sender, ThisAddress),
                                     candidate>>)},
     enqueued |-> <<[fn |-> "add_to_tally_public",
                     msg_sender |-> ThisAddress,
                     candidate |-> candidate]>>]

\* variant: no nullifier is pushed
cast_vote_no_nullifier(msg_sender, blk, candidate) ==
    [origin |-> msg_sender,
     nullifiers |-> {},
     enqueued |-> <<[fn |-> "add_to_tally_public",
                     msg_sender |-> ThisAddress,
                     candidate |-> candidate]>>]

\* variant: the nullifier also hashes the block number of the private context
cast_vote_per_block(msg_sender, blk, candidate) ==
    [origin |-> msg_sender,
     nullifiers |-> {pedersen_hash(<<msg_sender, request_nsk_app(msg_sender, ThisAddress),
                                     blk>>)},
     enqueued |-> <<[fn |-> "add_to_tally_public",
                     msg_sender |-> ThisAddress,
                     candidate |-> candidate]>>]

\* variant: the enqueued call also carries the voter
cast_vote_with_voter(msg_sender, blk, candidate) ==
    [origin |-> msg_sender,
     nullifiers |-> {vote_nullifier(msg_sender)},
     enqueued |-> <<[fn |-> "add_to_tally_public",
                     msg_sender |-> ThisAddress,
                     candidate |-> candidate,
                     voter |-> msg_sender]>>]

\* variant: the public call is enqueued twice
cast_vote_enqueue_twice(msg_sender, blk, candidate) ==
    [origin |-> msg_sender,
     nullifiers |-> {vote_nullifier(msg_sender)},
     enqueued |-> <<[fn |-> "add_to_tally_public",
                     msg_sender |-> ThisAddress,
                     candidate |-> candidate],
                    [fn |-> "add_to_tally_public",
                     msg_sender |-> ThisAddress,
                     candidate |-> candidate]>>]

\* variant: the nullifier hashes the nullifier secret of one fixed account,
\* whoever the sender is
cast_vote_shared_nullifier(msg_sender, blk, candidate) ==
    [origin |-> msg_sender,
     nullifiers |-> {pedersen_hash(<<ThisAddress, request_nsk_app(1, ThisAddress)>>)},
     enqueued |-> <<[fn |-> "add_to_tally_public",
                     msg_sender |-> ThisAddress,
                     candidate |-> candidate]>>]

\* fn cast_vote(candidate), private, run by msg_sender with a context whose
\* block number is blk: the side effects it hands to the host
cast_vote(msg_sender, blk, candidate) ==
    [origin |-> msg_sender,
     nullifiers |-> {vote_nullifier(msg_sender)},
     enqueued |-> <<[fn |-> "add_to_tally_public",
                     msg_sender |-> ThisAddress,
                     candidate |-> candidate]>>]

\* variant: the "Vote has ended" assertion is missing
add_to_tally_public_no_guard(st, msg_sender, candidate) ==
    IF msg_sender # ThisAddress
    THEN [ok |-> FALSE, err |-> "NotInternal", st |-> st]
    ELSE [ok |-> TRUE, err |-> "ok",
          st |-> [st EXCEPT !.tally[candidate] = st.tally[candidate] + 1]]

\* variant: the new tally is written to every candidate's slot
add_to_tally_public_all_slots(st, msg_sender, candidate) ==
    IF msg_sender # ThisAddress
    THEN [ok |-> FALSE, err |-> "NotInternal", st |-> st]
    ELSE IF st.vote_ended # FALSE
    THEN [ok |-> FALSE, err |-> "VotingEnded", st |-> st]
    ELSE [ok |-> TRUE, err |-> "ok",
          st |-> [st EXCEPT !.tally = [c \in Candidates |-> st.tally[candidate] + 1]]]

\* variant: writing one candidate's tally clears every other candidate's
add_to_tally_public_drops_others(st, msg_sender, candidate) ==
    IF msg_sender # ThisAddress
    THEN [ok |-> FALSE, err |-> "NotInternal", st |-> st]
    ELSE IF st.vote_ended # FALSE
    THEN [ok |-> FALSE, err |-> "VotingEnded", st |-> st]
    ELSE [ok |-> TRUE, err |-> "ok",
          st |-> [st EXCEPT !.tally = [c \in Candidates |->
                                          IF c = candidate THEN st.tally[c] + 1 ELSE 0]]]

\* variant: the function is #[public] only, any caller may run it
add_to_tally_public_not_internal(st, msg_sender, candidate) ==
    IF st.vote_ended # FALSE
    THEN [ok |-> FALSE, err |-> "VotingEnded", st |-> st]
    ELSE [ok |-> TRUE, err |-> "ok",
          st |-> [st EXCEPT !.tally[candidate] = st.tally[candidate] + 1]]

\* fn add_to_tally_public(candidate), #[public] #[internal]
add_to_tally_public(st, msg_sender, candidate) ==
    IF msg_sender # ThisAddress
    THEN [ok |-> FALSE, err |-> "NotInternal", st |-> st]
    ELSE IF st.vote_ended # FALSE
    THEN [ok |-> FALSE, err |-> "VotingEnded", st |-> st]
    ELSE [ok |-> TRUE, err |-> "ok",
          st |-> [st EXCEPT !.tally[candidate] = st.tally[candidate] + 1]]

\* variant: the admin assertion is missing
end_vote_no_check(st, msg_sender) ==
    [ok |-> TRUE, err |-> "ok", st |-> [st EXCEPT !.vote_ended = TRUE]]

\* variant: the flag is not written
end_vote_no_write(st, msg_sender) ==
    IF st.admin # msg_sender
    THEN [ok |-> FALSE, err |-> "Unauthorized", st |-> st]
    ELSE [ok |-> TRUE, err |-> "ok", st |-> st]

\* variant: the flag is flipped instead of set
end_vote_toggle(st, msg_sender) ==
    IF st.admin # msg_sender
    THEN [ok |-> FALSE, err |-> "Unauthorized", st |-> st]
    ELSE [ok |-> TRUE, err |-> "ok", st |-> [st EXCEPT !.vote_ended = ~st.vote_ended]]

\* variant: a successful close also clears the admin slot
end_vote_clears_admin(st, msg_sender) ==
    IF st.admin # msg_sender
    THEN [ok |-> FALSE, err |-> "Unauthorized", st |-> st]
    ELSE [ok |-> TRUE, err |-> "ok",
          st |-> [st EXCEPT !.vote_ended = TRUE, !.admin = ZeroAddress]]

\* variant: closing the vote also clears the tallies
end_vote_resets_tally(st, msg_sender) ==
    IF st.admin # msg_sender
    THEN [ok |-> FALSE, err |-> "Unauthorized", st |-> st]
    ELSE [ok |-> TRUE, err |-> "ok",
          st |-> [st EXCEPT !.vote_ended = TRUE, !.tally = [c \in Candidates |-> 0]]]

\* variant: the "Vote has ended" assertion of end_vote is enabled
end_vote_guarded(st, msg_sender) ==
    IF st.vote_ended # FALSE
    THEN [ok |-> FALSE, err |-> "VotingEnded", st |-> st]
    ELSE IF st.admin # msg_sender
    THEN [ok |-> FALSE, err |-> "Unauthorized", st |-> st]
    ELSE [ok |-> TRUE, err |-> "ok", st |-> [st EXCEPT !.vote_ended = TRUE]]

\* fn end_vote(), #[public]
end_vote(st, msg_sender) ==
    IF st.admin # msg_sender
    THEN [ok |-> FALSE, err |-> "Unauthorized", st |-> st]
    ELSE [ok |-> TRUE, err |-> "ok", st |-> [st EXCEPT !.vote_ended = TRUE]]

\* the #[utility] accessors
get_vote(candidate) == storage.tally[candidate]
get_vote_ended == storage.vote_ended
get_admin == storage.admin
get_active_at_block == storage.active_at_block

\* ------------------------------------------------------------------ host
\* public phase: the enqueued calls run in order; the first failure stops it
RECURSIVE ExecEnqueued(_, _)
ExecEnqueued(st, calls) ==
    IF calls = <<>> THEN [ok |-> TRUE, err |-> "ok", st |-> st]
    ELSE LET r == add_to_tally_public(st, Head(calls).msg_sender, Head(calls).candidate)
         IN IF r.ok THEN ExecEnqueued(r.st, Tail(calls)) ELSE r

\* what including a transaction does to (storage, nullifier set)
IncludeTx(st, nulls, tx) ==
    IF tx.nullifiers \cap nulls # {}
    THEN [outcome |-> "DuplicateVote", st |-> st, nulls |-> nulls]
    ELSE LET r == ExecEnqueued(st, tx.enqueued)
         IN IF r.ok
            THEN [outcome |-> "ok", st |-> r.st, nulls |-> nulls \cup tx.nullifiers]
            ELSE [outcome |-> r.err, st |-> st, nulls |-> nulls]

NoResult == [op |-> "none", outcome |-> "none", returned |-> "none"]

\* a transaction attempt resolved; transactions return nothing to the caller
Outcome(op, outcome) == [op |-> op, outcome |-> outcome, returned |-> "none"]

\* a #[utility] call returned a value
Returned(op, value) == [op |-> op, outcome |-> "ok", returned |-> value]

TxCandidate(tx) == tx.enqueued[1].candidate

\* ------------------------------------------------------------------ Init
\* the last step of the dapp: the function, what happened to the call
\* ("called", "resumed", "returned", "threw") and the error's message, the
\* outermost wrapper first
AppResult(fn, ev, err) == [fn |-> fn, ev |-> ev, err |-> err]

\* the dapp's objects as constructed: pxe unassigned, connectedAccount and
\* contract null, isLoading false, nothing in flight, nothing stored
NewApp ==
    [pxe |-> FALSE,
     connectedAccount |-> "null",
     localStorage |-> FALSE,
     contract |-> "null",
     isLoading |-> FALSE,
     inFlight |-> EmptyBag,
     appResult |-> AppResult("none", "none", <<>>),
     initialize_succeeded |-> FALSE,
     artifact_registered |-> FALSE]

NoApp == dapp = NewApp

Init ==
    /\ NoApp
    /\ storage = EmptyStorage
    /\ initialized = FALSE
    /\ nullifiers = {}
    /\ pending = EmptyBag
    /\ result = NoResult
    /\ contributed = [a \in Accounts |-> 0]
    /\ admin_ended = FALSE

\* --------------------------------------------------------------- actions
\* variant: the initializer may run again on a constructed ballot
Construct_again(admin, blk) ==
    /\ storage' = constructor(storage, admin, blk)
    /\ initialized' = TRUE
    /\ result' = Outcome("constructor", "ok")
    /\ UNCHANGED <<nullifiers, pending, contributed, admin_ended>>

\* deployment in block blk (what context.block_number() returns to the
\* initializer): the initializer runs once; a second attempt is rejected
Construct(admin, blk) ==
    /\ IF initialized
       THEN /\ result' = Outcome("constructor", "AlreadyInitialized")
            /\ UNCHANGED <<storage, initialized>>
       ELSE /\ storage' = constructor(storage, admin, blk)
            /\ initialized' = TRUE
            /\ result' = Outcome("constructor", "ok")
    /\ UNCHANGED <<nullifiers, pending, contributed, admin_ended>>

\* private phase of cast_vote, run by the voter against the current state
CastVotePrivate(voter, blk, candidate) ==
    /\ IF ~initialized
       THEN /\ result' = Outcome("cast_vote", "NotInitialized")
            /\ UNCHANGED pending
       ELSE /\ BagCardinality(pending) < MaxPending
            /\ pending' = pending (+) SetToBag({cast_vote(voter, blk, candidate)})
            /\ UNCHANGED result
    /\ UNCHANGED <<storage, initialized, nullifiers, contributed, admin_ended>>

\* variant: a transaction that fails is kept and tried again
ProcessTx_keeps_failed(tx) ==
    /\ BagIn(tx, pending)
    /\ LET r == IncludeTx(storage, nullifiers, tx)
       IN /\ storage' = r.st
          /\ nullifiers' = r.nulls
          /\ result' = Outcome("cast_vote", r.outcome)
          /\ contributed' =
                IF r.outcome = "ok"
                THEN [contributed EXCEPT ![tx.origin] = contributed[tx.origin] + Len(tx.enqueued)]
                ELSE contributed
          /\ pending' = IF r.outcome = "ok" THEN pending (-) SetToBag({tx}) ELSE pending
    /\ UNCHANGED <<initialized, admin_ended>>

\* the host includes a pending cast_vote transaction
ProcessTx(tx) ==
    /\ BagIn(tx, pending)
    /\ LET r == IncludeTx(storage, nullifiers, tx)
       IN /\ storage' = r.st
          /\ nullifiers' = r.nulls
          /\ result' = Outcome("cast_vote", r.outcome)
          /\ contributed' =
                IF r.outcome = "ok"
                THEN [contributed EXCEPT ![tx.origin] = contributed[tx.origin] + Len(tx.enqueued)]
                ELSE contributed
    /\ pending' = pending (-) SetToBag({tx})
    /\ UNCHANGED <<initialized, admin_ended>>

\* a transaction calling end_vote directly
EndVote(caller) ==
    /\ IF ~initialized
       THEN /\ result' = Outcome("end_vote", "NotInitialized")
            /\ UNCHANGED <<storage, admin_ended>>
       ELSE LET r == end_vote(storage, caller)
            IN /\ storage' = r.st
               /\ result' = Outcome("end_vote", r.err)
               /\ admin_ended' = (admin_ended \/ (r.ok /\ caller = storage.admin))
    /\ UNCHANGED <<initialized, nullifiers, pending, contributed>>

Next ==
    \/ \E a \in Addresses, blk \in Blocks : Construct(a, blk) /\ UNCHANGED dapp
    \/ \E v \in Addresses, blk \in Blocks, c \in Candidates : CastVotePrivate(v, blk, c) /\ UNCHANGED dapp
    \/ \E tx \in BagToSet(pending) : ProcessTx(tx) /\ UNCHANGED dapp
    \/ \E a \in Addresses : EndVote(a) /\ UNCHANGED dapp

Spec == Init /\ [][Next]_vars

\* ------------------------------------------------- sequential execution
\* cast_vote(candidate).call(&mut env.private()): the private phase and the
\* inclusion of the transaction it produced, with nothing else in between
CastVoteCall(voter, blk, candidate) ==
    /\ IF ~initialized
       THEN /\ result' = Outcome("cast_vote", "NotInitialized")
            /\ UNCHANGED <<storage, nullifiers, contributed>>
       ELSE LET tx == cast_vote(voter, blk, candidate)
                r == IncludeTx(storage, nullifiers, tx)
            IN /\ storage' = r.st
               /\ nullifiers' = r.nulls
               /\ result' = Outcome("cast_vote", r.outcome)
               /\ contributed' =
                     IF r.outcome = "ok"
                     THEN [contributed EXCEPT ![voter] = contributed[voter] + Len(tx.enqueued)]
                     ELSE contributed
    /\ UNCHANGED <<initialized, pending, admin_ended>>

\* variant: reading a tally also counts the read in it
GetVote_counts(candidate) ==
    /\ result' = Returned("get_vote", get_vote(candidate))
    /\ storage' = [storage EXCEPT !.tally[candidate] = storage.tally[candidate] + 1]
    /\ UNCHANGED <<initialized, nullifiers, pending, contributed, admin_ended>>

\* variant: reading the tally of a candidate nobody voted for is an error
GetVote_unseen_fails(candidate) ==
    /\ result' = IF get_vote(candidate) = 0
                 THEN Outcome("get_vote", "NotFound")
                 ELSE Returned("get_vote", get_vote(candidate))
    /\ UNCHANGED <<storage, initialized, nullifiers, pending, contributed, admin_ended>>

\* the #[utility] accessors, called by anyone, in any state
GetVote(candidate) ==
    /\ result' = Returned("get_vote", get_vote(candidate))
    /\ UNCHANGED <<storage, initialized, nullifiers, pending, contributed, admin_ended>>

GetVoteEnded ==
    /\ result' = Returned("get_vote_ended", get_vote_ended)
    /\ UNCHANGED <<storage, initialized, nullifiers, pending, contributed, admin_ended>>

GetAdmin ==
    /\ result' = Returned("get_admin", get_admin)
    /\ UNCHANGED <<storage, initialized, nullifiers, pending, contributed, admin_ended>>

GetActiveAtBlock ==
    /\ result' = Returned("get_active_at_block", get_active_at_block)
    /\ UNCHANGED <<storage, initialized, nullifiers, pending, contributed, admin_ended>>

\* a transaction calling add_to_tally_public directly: msg_sender is the
\* account that sent it, never the ballot's own address
AddToTallyCall(caller, candidate) ==
    /\ IF ~initialized
       THEN /\ result' = Outcome("add_to_tally_public", "NotInitialized")
            /\ UNCHANGED storage
       ELSE LET r == add_to_tally_public(storage, caller, candidate)
            IN /\ storage' = r.st
               /\ result' = Outcome("add_to_tally_public", r.err)
    /\ UNCHANGED <<initialized, nullifiers, pending, contributed, admin_ended>>

NextSeq ==
    \/ \E a \in Accounts, blk \in Blocks : Construct(a, blk) /\ UNCHANGED dapp
    \/ \E v \in Accounts, blk \in Blocks, c \in Candidates : CastVoteCall(v, blk, c) /\ UNCHANGED dapp
    \/ \E a \in Accounts : EndVote(a) /\ UNCHANGED dapp
    \/ \E a \in Accounts, c \in Candidates : AddToTallyCall(a, c) /\ UNCHANGED dapp
    \/ \E c \in Candidates : GetVote(c) /\ UNCHANGED dapp
    \/ GetVoteEnded /\ UNCHANGED dapp
    \/ GetAdmin /\ UNCHANGED dapp
    \/ GetActiveAtBlock /\ UNCHANGED dapp

SpecSeq == Init /\ [][NextSeq]_vars

\* ------------------------------------------------- the reference scenario
\* spec.md section 8, "Concrete scenario": each step is one of the operations
\* above, enabled only at its place in the scenario.  The admin, the voters,
\* the two candidates and the blocks are any that fit.
TraceConstruct(admin, blk) ==
    /\ ~initialized
    /\ Construct(admin, blk)

\* V1 votes for the first candidate
TraceVote1(voter, blk, candidate) ==
    /\ result = Outcome("constructor", "ok")
    /\ CastVoteCall(voter, blk, candidate)

\* V2, who has not voted, votes for the same candidate
TraceVote2(voter, blk, candidate) ==
    /\ result = Outcome("cast_vote", "ok")
    /\ Cardinality(nullifiers) = 1
    /\ contributed[voter] = 0
    /\ storage.tally[candidate] = 1
    /\ CastVoteCall(voter, blk, candidate)

\* a voter who has voted tries again, for another candidate
TraceVoteAgain(voter, blk, candidate) ==
    /\ result = Outcome("cast_vote", "ok")
    /\ Cardinality(nullifiers) = 2
    /\ contributed[voter] = 1
    /\ storage.tally[candidate] = 0
    /\ CastVoteCall(voter, blk, candidate)

\* the admin closes the vote
TraceEndVote ==
    /\ result = Outcome("cast_vote", "DuplicateVote")
    /\ EndVote(storage.admin)

\* V3, who has not voted, votes for the first candidate
TraceVoteLate(voter, blk, candidate) ==
    /\ result = Outcome("end_vote", "ok")
    /\ contributed[voter] = 0
    /\ storage.tally[candidate] = 2
    /\ CastVoteCall(voter, blk, candidate)

NextTrace ==
    \/ \E a \in Accounts, blk \in Blocks : TraceConstruct(a, blk) /\ UNCHANGED dapp
    \/ \E v \in Accounts, blk \in Blocks, c \in Candidates : TraceVote1(v, blk, c) /\ UNCHANGED dapp
    \/ \E v \in Accounts, blk \in Blocks, c \in Candidates : TraceVote2(v, blk, c) /\ UNCHANGED dapp
    \/ \E v \in Accounts, blk \in Blocks, c \in Candidates : TraceVoteAgain(v, blk, c) /\ UNCHANGED dapp
    \/ TraceEndVote /\ UNCHANGED dapp
    \/ \E v \in Accounts, blk \in Blocks, c \in Candidates : TraceVoteLate(v, blk, c) /\ UNCHANGED dapp

SpecTrace == Init /\ [][NextTrace]_vars

\* ------------------------------------------- transactions racing to commit
\* every cast_vote transaction some voters can have in flight at once
AllTxs == {cast_vote(v, blk, c) : v \in Addresses, blk \in Blocks, c \in Candidates}

RECURSIVE BagsOfSize(_)
BagsOfSize(n) ==
    IF n = 0 THEN {EmptyBag}
    ELSE {b (+) SetToBag({tx}) : b \in BagsOfSize(n - 1), tx \in AllTxs}

\* a freshly constructed, open ballot on which nobody has voted, with between
\* one and MaxPending transactions in flight: all their private phases ran
\* against this state
InitRace ==
    /\ NoApp
    /\ \E a \in Addresses, blk \in Blocks : storage = constructor(EmptyStorage, a, blk)
    /\ initialized = TRUE
    /\ nullifiers = {}
    /\ pending \in UNION {BagsOfSize(n) : n \in 1..MaxPending}
    /\ result = Outcome("constructor", "ok")
    /\ contributed = [a \in Accounts |-> 0]
    /\ admin_ended = FALSE

\* the host commits them, and any end_vote, in whatever order it picks
NextRace ==
    \/ \E tx \in BagToSet(pending) : ProcessTx(tx) /\ UNCHANGED dapp
    \/ \E a \in Addresses : EndVote(a) /\ UNCHANGED dapp

SpecRace == InitRace /\ [][NextRace]_vars

\* ------------------------------------------------------- a closed ballot
\* storage and nullifier set after the transactions txs were included in order
RECURSIVE IncludeAll(_, _, _)
IncludeAll(st, nulls, txs) ==
    IF txs = <<>> THEN [st |-> st, nulls |-> nulls]
    ELSE LET r == IncludeTx(st, nulls, Head(txs))
         IN IncludeAll(r.st, r.nulls, Tail(txs))

\* one cast_vote transaction from each voter in vs, in every order
RECURSIVE VoteSeqs(_)
VoteSeqs(vs) ==
    IF vs = {} THEN {<<>>}
    ELSE UNION {{<<cast_vote(v, blk, c)>> \o rest :
                    blk \in Blocks, c \in Candidates, rest \in VoteSeqs(vs \ {v})} : v \in vs}

\* a ballot that was constructed, voted on by some of the accounts and then
\* closed by its admin; the last call was a get_vote_ended, which returned true
InitClosed ==
    /\ NoApp
    /\ \E a \in Accounts, blk \in Blocks, vs \in SUBSET Accounts :
         \E txs \in VoteSeqs(vs) :
            LET r == IncludeAll(constructor(EmptyStorage, a, blk), {}, txs)
            IN /\ storage = end_vote(r.st, a).st
               /\ nullifiers = r.nulls
               /\ contributed = [v \in Accounts |-> IF v \in vs THEN 1 ELSE 0]
    /\ initialized = TRUE
    /\ pending = EmptyBag
    /\ result = Returned("get_vote_ended", TRUE)
    /\ admin_ended = TRUE

\* calls made one at a time on the closed ballot
NextClosed ==
    \/ \E a \in Accounts : EndVote(a) /\ UNCHANGED dapp
    \/ \E v \in Accounts, blk \in Blocks, c \in Candidates : CastVoteCall(v, blk, c) /\ UNCHANGED dapp
    \/ GetVoteEnded /\ UNCHANGED dapp

SpecClosed == InitClosed /\ [][NextClosed]_vars

\* ------------------------------------------- two ballots on one ledger
\* the address of a second deployment of the contract
OtherAddress == ThisAddress + 1

\* the nullifier cast_vote derives for msg_sender when the deployment at
\* this_address runs it
vote_nullifier_at(this_address, msg_sender) ==
    pedersen_hash(<<msg_sender, request_nsk_app(msg_sender, this_address)>>)

\* cast_vote as run by the deployment at this_address
cast_vote_at(this_address, msg_sender, blk, candidate) ==
    [origin |-> msg_sender,
     nullifiers |-> {vote_nullifier_at(this_address, msg_sender)},
     enqueued |-> <<[fn |-> "add_to_tally_public",
                     msg_sender |-> this_address,
                     candidate |-> candidate]>>]

\* a cast_vote call on the second deployment, which is constructed and open.
\* Its nullifier goes to the one nullifier set of the ledger; its tallies are
\* storage of the other deployment and are not part of this state.
CastVoteOther(voter, blk, candidate) ==
    /\ LET tx == cast_vote_at(OtherAddress, voter, blk, candidate)
       IN IF tx.nullifiers \cap nullifiers # {}
          THEN /\ result' = Outcome("cast_vote_other", "DuplicateVote")
               /\ UNCHANGED nullifiers
          ELSE /\ result' = Outcome("cast_vote_other", "ok")
               /\ nullifiers' = nullifiers \cup tx.nullifiers
    /\ UNCHANGED <<storage, initialized, pending, contributed, admin_ended>>

NextTwo ==
    \/ \E a \in Addresses, blk \in Blocks : Construct(a, blk) /\ UNCHANGED dapp
    \/ \E v \in Addresses, blk \in Blocks, c \in Candidates : CastVoteCall(v, blk, c) /\ UNCHANGED dapp
    \/ \E v \in Addresses, blk \in Blocks, c \in Candidates : CastVoteOther(v, blk, c) /\ UNCHANGED dapp
    \/ \E a \in Addresses : EndVote(a) /\ UNCHANGED dapp

SpecTwo == Init /\ [][NextTwo]_vars

\* ------------------------------------------ every transaction resolves
\* a transaction that calls end_vote, sent by caller: it has no private
\* phase, so it carries no nullifier
end_vote_tx(caller) ==
    [origin |-> caller,
     nullifiers |-> {},
     enqueued |-> <<[fn |-> "end_vote", msg_sender |-> caller]>>]

IsCastVoteTx(tx) == tx.enqueued[1].fn = "add_to_tally_public"

\* the transactions that can be in flight at once
LiveTxs == AllTxs \cup {end_vote_tx(a) : a \in Addresses}

RECURSIVE LiveBagsOfSize(_)
LiveBagsOfSize(n) ==
    IF n = 0 THEN {EmptyBag}
    ELSE {b (+) SetToBag({tx}) : b \in LiveBagsOfSize(n - 1), tx \in LiveTxs}

\* a constructed, open ballot with between one and MaxPending cast_vote and
\* end_vote transactions in flight
InitLive ==
    /\ NoApp
    /\ \E a \in Addresses, blk \in Blocks : storage = constructor(EmptyStorage, a, blk)
    /\ initialized = TRUE
    /\ nullifiers = {}
    /\ pending \in UNION {LiveBagsOfSize(n) : n \in 1..MaxPending}
    /\ result = Outcome("constructor", "ok")
    /\ contributed = [a \in Accounts |-> 0]
    /\ admin_ended = FALSE

\* the host includes a pending cast_vote transaction
ProcessCastVote(tx) ==
    /\ IsCastVoteTx(tx)
    /\ ProcessTx(tx)

\* the host includes a pending end_vote transaction
ProcessEndVote(tx) ==
    /\ BagIn(tx, pending)
    /\ ~IsCastVoteTx(tx)
    /\ LET r == end_vote(storage, tx.origin)
       IN /\ storage' = r.st
          /\ result' = Outcome("end_vote", r.err)
          /\ admin_ended' = (admin_ended \/ (r.ok /\ tx.origin = storage.admin))
    /\ pending' = pending (-) SetToBag({tx})
    /\ UNCHANGED <<initialized, nullifiers, contributed>>

NextLive ==
    \/ \E tx \in BagToSet(pending) : ProcessCastVote(tx) /\ UNCHANGED dapp
    \/ \E tx \in BagToSet(pending) : ProcessEndVote(tx) /\ UNCHANGED dapp

\* the host is fair to every transaction: one that stays includable is
\* included
FairHost ==
    \A tx \in LiveTxs :
        /\ WF_vars(ProcessCastVote(tx) /\ UNCHANGED dapp)
        /\ WF_vars(ProcessEndVote(tx) /\ UNCHANGED dapp)

SpecLive == InitLive /\ [][NextLive]_vars /\ FairHost

\* ------------------------------------------------------------ the dapp
\* (src/unnamed/part_000, TypeScript). An async call runs until its first
\* await without interruption; each await that waits on the PXE, the node or
\* the network is a point where other calls and events interleave, and the
\* promise it waits on resolves (ok) or rejects (~ok). The operators below
\* give the dapp's record after a step, from the record a before it.
MaxInFlight == 2

\* an async call suspended at the await named pc; hook says whether it was
\* made through the useWallet wrapper
Call(fn, pc, h) == [fn |-> fn, pc |-> pc, hook |-> h]

InFlightCalls == BagToSet(inFlight)

\* room for one more call in flight
CanEnter == BagCardinality(inFlight) < MaxInFlight

\* AztecWallet.isInitialized(): !!this.pxe
isInitialized == pxe

\* AztecWallet.isConnected(): !!this.connectedAccount
isConnected == connectedAccount # "null"

\* the handler's operations, by the wallet method each one calls
HandlerSends == {"castVote", "endVote"}

HandlerSimulates == {"getVote", "getVoteEnded", "getAdmin", "getActiveAtBlock"}

\* the message of the handler's catch block for each operation
FailedTo(fn) ==
    CASE fn = "castVote" -> "Failed to cast vote"
      [] fn = "endVote" -> "Failed to end vote"
      [] fn = "getVote" -> "Failed to get vote"
      [] fn = "getVoteEnded" -> "Failed to get vote ended status"
      [] fn = "getAdmin" -> "Failed to get admin"
      [] fn = "getActiveAtBlock" -> "Failed to get active at block"

\* `${prefix}: ${error}`: the error of a wallet method as the caller sees it,
\* wrapped once more when a handler operation made the call
Wrapped(fn, err) ==
    IF fn \in HandlerSends \cup HandlerSimulates THEN <<FailedTo(fn)>> \o err ELSE err

\* a synchronous method returns
Returns(a, fn) == [a EXCEPT !.appResult = AppResult(fn, "returned", <<>>)]

\* a call ends before its first await, throwing from a guard or returning;
\* useWallet's finally block runs: setIsLoading(false)
Throw(a, fn, h, err) ==
    [a EXCEPT !.appResult = AppResult(fn, "threw", err),
              !.isLoading = IF h THEN FALSE ELSE @]

\* an async call passes its guards and suspends at its first await; useWallet
\* has set isLoading before calling it
Enter(a, fn, pc, h) ==
    [a EXCEPT !.inFlight = @ (+) SetToBag({Call(fn, pc, h)}),
              !.appResult = AppResult(fn, "called", <<>>),
              !.isLoading = IF h THEN TRUE ELSE @]

\* an async call in flight moves on to its next await
Resume(a, c, pc) ==
    [a EXCEPT !.inFlight = (@ (-) SetToBag({c})) (+) SetToBag({[c EXCEPT !.pc = pc]}),
              !.appResult = AppResult(c.fn, "resumed", <<>>)]

\* the catch block of an async call in flight: it ends, rethrowing; useWallet's
\* finally block runs
Rethrow(a, c, err) ==
    [a EXCEPT !.inFlight = @ (-) SetToBag({c}),
              !.appResult = AppResult(c.fn, "threw", Wrapped(c.fn, err)),
              !.isLoading = IF c.hook THEN FALSE ELSE @]

\* an async call in flight returns; useWallet's finally block runs
Return(a, c) ==
    [a EXCEPT !.inFlight = @ (-) SetToBag({c}),
              !.appResult = AppResult(c.fn, "returned", <<>>),
              !.isLoading = IF c.hook THEN FALSE ELSE @]

\* ---- AztecWallet.initialize
initialize(h) ==
    /\ CanEnter
    /\ dapp' = Enter(dapp, "initialize", "createPXEService", h)

\* the outer catch of AztecWallet.initialize
initialize_fails(a, c) == Rethrow(a, c, <<"Failed to initialize wallet", c.pc>>)

\* createAztecNodeClient, getL1ContractAddresses and createPXEService
\* resolve, and this.pxe is assigned; or one of them rejects
initialize_createPXEService(c, ok) ==
    /\ BagIn(c, inFlight) /\ c.fn = "initialize" /\ c.pc = "createPXEService"
    /\ dapp' = IF ok THEN [Resume(dapp, c, "registerContract") EXCEPT !.pxe = TRUE]
                    ELSE initialize_fails(dapp, c)

\* this.pxe.registerContract for the sponsored fee contract
initialize_registerContract(c, ok) ==
    /\ BagIn(c, inFlight) /\ c.fn = "initialize" /\ c.pc = "registerContract"
    /\ dapp' = IF ok THEN Resume(dapp, c, "registerArtifact")
                    ELSE initialize_fails(dapp, c)

\* the ways the registration of the private voting artifact can go
ArtifactOutcomes == {"registered", "import rejected", "registerContract rejected"}

\* static PrivateVotingContractHandler.registerArtifact(), called with
\* wallet.pxe set or not (p) and a pxe.registerContract that resolves or
\* rejects (ok): its try block covers getPXE() and the registration, and its
\* catch block only logs
registerArtifact(p, ok) == [threw |-> FALSE, registered |-> p /\ ok]

\* variant: a failure to register the artifact reaches the outer catch
initialize_registerArtifact_fatal(c, how) ==
    /\ BagIn(c, inFlight) /\ c.fn = "initialize" /\ c.pc = "registerArtifact"
    /\ LET r == IF how = "import rejected"
                THEN [threw |-> TRUE, registered |-> FALSE]
                ELSE registerArtifact(pxe, how = "registered")
       IN dapp' = IF r.registered
                 THEN [Resume(dapp, c, "getNodeInfo") EXCEPT
                          !.artifact_registered = TRUE,
                          !.appResult = AppResult("registerArtifact", "returned", <<>>)]
                 ELSE initialize_fails(dapp, c)

\* the inner try block of AztecWallet.initialize: the dynamic import and
\* registerArtifact(); its catch block only logs, and the call goes on to
\* getNodeInfo
initialize_registerArtifact(c, how) ==
    /\ BagIn(c, inFlight) /\ c.fn = "initialize" /\ c.pc = "registerArtifact"
    /\ LET r == IF how = "import rejected"
                THEN [threw |-> TRUE, registered |-> FALSE]
                ELSE registerArtifact(pxe, how = "registered")
       IN dapp' = [Resume(dapp, c, "getNodeInfo") EXCEPT
                     !.artifact_registered = @ \/ r.registered,
                     !.appResult = AppResult("registerArtifact",
                                             IF r.registered THEN "returned" ELSE "caught",
                                             <<>>)]

\* this.pxe.getNodeInfo(), the last await of initialize
initialize_getNodeInfo(c, ok) ==
    /\ BagIn(c, inFlight) /\ c.fn = "initialize" /\ c.pc = "getNodeInfo"
    /\ dapp' = IF ok THEN [Return(dapp, c) EXCEPT !.initialize_succeeded = TRUE]
                    ELSE initialize_fails(dapp, c)

\* ---- AztecWallet.createAccount
createAccount(h) ==
    IF ~pxe
    THEN dapp' = Throw(dapp, "createAccount", h, <<"Wallet not initialized">>)
    ELSE /\ CanEnter
         /\ dapp' = Enter(dapp, "createAccount", "deploy", h)

\* the account's deployment is proved, sent and mined, and the account data
\* is written to localStorage
createAccount_deploy(c, ok) ==
    /\ BagIn(c, inFlight) /\ c.fn = "createAccount" /\ c.pc = "deploy"
    /\ dapp' = IF ok THEN [Resume(dapp, c, "register") EXCEPT !.localStorage = TRUE]
                    ELSE Rethrow(dapp, c, <<"Failed to create account", c.pc>>)

\* ecdsaAccount.register(), then this.connectedAccount = ecdsaWallet
createAccount_register(c, ok) ==
    /\ BagIn(c, inFlight) /\ c.fn = "createAccount" /\ c.pc = "register"
    /\ dapp' = IF ok THEN [Return(dapp, c) EXCEPT !.connectedAccount = "ecdsa"]
                    ELSE Rethrow(dapp, c, <<"Failed to create account", c.pc>>)

\* ---- AztecWallet.connectAccount
connectAccount(h) ==
    IF ~pxe
    THEN dapp' = Throw(dapp, "connectAccount", h, <<"Wallet not initialized">>)
    ELSE IF ~localStorage
    THEN \* no stored account: returns null
         dapp' = [Throw(dapp, "connectAccount", h, <<>>) EXCEPT
                    !.appResult = AppResult("connectAccount", "returned", <<>>)]
    ELSE /\ CanEnter
         /\ dapp' = Enter(dapp, "connectAccount", "register", h)

connectAccount_register(c, ok) ==
    /\ BagIn(c, inFlight) /\ c.fn = "connectAccount" /\ c.pc = "register"
    /\ dapp' = IF ok THEN [Return(dapp, c) EXCEPT !.connectedAccount = "ecdsa"]
                    ELSE Rethrow(dapp, c, <<"Failed to connect account", c.pc>>)

\* ---- AztecWallet.connectTestAccount
connectTestAccount(h) ==
    IF ~pxe
    THEN dapp' = Throw(dapp, "connectTestAccount", h, <<"Wallet not initialized">>)
    ELSE /\ CanEnter
         /\ dapp' = Enter(dapp, "connectTestAccount", "register", h)

connectTestAccount_register(c, ok) ==
    /\ BagIn(c, inFlight) /\ c.fn = "connectTestAccount" /\ c.pc = "register"
    /\ dapp' = IF ok THEN [Return(dapp, c) EXCEPT !.connectedAccount = "test"]
                    ELSE Rethrow(dapp, c, <<"Failed to connect test account", c.pc>>)

\* ---- AztecWallet.disconnectAccount, clearStoredAccount, getPXE
disconnectAccount ==
    dapp' = [Returns(dapp, "disconnectAccount") EXCEPT !.connectedAccount = "null"]

clearStoredAccount ==
    dapp' = [Returns(dapp, "clearStoredAccount") EXCEPT !.localStorage = FALSE]

getPXE ==
    dapp' = IF ~pxe THEN Throw(dapp, "getPXE", FALSE, <<"Wallet not initialized">>)
                   ELSE Returns(dapp, "getPXE")

\* ---- AztecWallet.sendTransaction, called directly (fn = "sendTransaction")
\* or by the handler operation fn
\* variant: the connected-account guard is missing
wallet_sendTransaction_no_guard(fn, h) ==
    IF ~pxe
    THEN dapp' = Throw(dapp, fn, h, Wrapped(fn, <<"Wallet not initialized">>))
    ELSE /\ CanEnter
         /\ dapp' = Enter(dapp, fn, "prove", h)

wallet_sendTransaction(fn, h) ==
    IF connectedAccount = "null"
    THEN dapp' = Throw(dapp, fn, h, Wrapped(fn, <<"No account connected">>))
    ELSE IF ~pxe
    THEN dapp' = Throw(dapp, fn, h, Wrapped(fn, <<"Wallet not initialized">>))
    ELSE /\ CanEnter
         /\ dapp' = Enter(dapp, fn, "prove", h)

sendTransaction(h) == wallet_sendTransaction("sendTransaction", h)

\* interaction.prove() resolves or rejects
sendTransaction_prove(c, ok) ==
    /\ BagIn(c, inFlight) /\ c.pc = "prove"
    /\ dapp' = IF ok THEN Resume(dapp, c, "send")
                    ELSE Rethrow(dapp, c, <<"Failed to send transaction", c.pc>>)

\* provenInteraction.send().wait() resolves or rejects
sendTransaction_send(c, ok) ==
    /\ BagIn(c, inFlight) /\ c.pc = "send"
    /\ dapp' = IF ok THEN Return(dapp, c)
                    ELSE Rethrow(dapp, c, <<"Failed to send transaction", c.pc>>)

\* ---- AztecWallet.simulateTransaction, called directly or by a handler
\* operation
wallet_simulateTransaction(fn, h) ==
    IF connectedAccount = "null"
    THEN dapp' = Throw(dapp, fn, h, Wrapped(fn, <<"No account connected">>))
    ELSE /\ CanEnter
         /\ dapp' = Enter(dapp, fn, "simulate", h)

simulateTransaction(h) == wallet_simulateTransaction("simulateTransaction", h)

\* interaction.simulate() resolves or rejects
simulateTransaction_simulate(c, ok) ==
    /\ BagIn(c, inFlight) /\ c.pc = "simulate"
    /\ dapp' = IF ok THEN Return(dapp, c)
                    ELSE Rethrow(dapp, c, <<"Failed to simulate transaction", c.pc>>)

\* ---- AztecWallet.registerContract
registerContract ==
    IF ~pxe
    THEN dapp' = Throw(dapp, "registerContract", FALSE, <<"Wallet not initialized">>)
    ELSE /\ CanEnter
         /\ dapp' = Enter(dapp, "registerContract", "registerContract", FALSE)

registerContract_registerContract(c, ok) ==
    /\ BagIn(c, inFlight) /\ c.fn = "registerContract" /\ c.pc = "registerContract"
    /\ dapp' = IF ok THEN Return(dapp, c)
                    ELSE Rethrow(dapp, c, <<"Failed to register contract", c.pc>>)

\* the direct callers of the wallet singleton
NextWallet ==
    \/ initialize(FALSE) /\ UNCHANGED contractVars
    \/ \E c \in InFlightCalls, ok \in BOOLEAN :
          initialize_createPXEService(c, ok) /\ UNCHANGED contractVars
    \/ \E c \in InFlightCalls, ok \in BOOLEAN :
          initialize_registerContract(c, ok) /\ UNCHANGED contractVars
    \/ \E c \in InFlightCalls, how \in ArtifactOutcomes :
          initialize_registerArtifact(c, how) /\ UNCHANGED contractVars
    \/ \E c \in InFlightCalls, ok \in BOOLEAN :
          initialize_getNodeInfo(c, ok) /\ UNCHANGED contractVars
    \/ createAccount(FALSE) /\ UNCHANGED contractVars
    \/ \E c \in InFlightCalls, ok \in BOOLEAN :
          createAccount_deploy(c, ok) /\ UNCHANGED contractVars
    \/ \E c \in InFlightCalls, ok \in BOOLEAN :
          createAccount_register(c, ok) /\ UNCHANGED contractVars
    \/ connectAccount(FALSE) /\ UNCHANGED contractVars
    \/ \E c \in InFlightCalls, ok \in BOOLEAN :
          connectAccount_register(c, ok) /\ UNCHANGED contractVars
    \/ connectTestAccount(FALSE) /\ UNCHANGED contractVars
    \/ \E c \in InFlightCalls, ok \in BOOLEAN :
          connectTestAccount_register(c, ok) /\ UNCHANGED contractVars
    \/ disconnectAccount /\ UNCHANGED contractVars
    \/ clearStoredAccount /\ UNCHANGED contractVars
    \/ getPXE /\ UNCHANGED contractVars
    \/ sendTransaction(FALSE) /\ UNCHANGED contractVars
    \/ \E c \in InFlightCalls, ok \in BOOLEAN :
          sendTransaction_prove(c, ok) /\ UNCHANGED contractVars
    \/ \E c \in InFlightCalls, ok \in BOOLEAN :
          sendTransaction_send(c, ok) /\ UNCHANGED contractVars
    \/ simulateTransaction(FALSE) /\ UNCHANGED contractVars
    \/ \E c \in InFlightCalls, ok \in BOOLEAN :
          simulateTransaction_simulate(c, ok) /\ UNCHANGED contractVars
    \/ registerContract /\ UNCHANGED contractVars
    \/ \E c \in InFlightCalls, ok \in BOOLEAN :
          registerContract_registerContract(c, ok) /\ UNCHANGED contractVars

\* the ballot contract as the dapp's specifications leave it: not touched
InitContract ==
    /\ storage = EmptyStorage
    /\ initialized = FALSE
    /\ nullifiers = {}
    /\ pending = EmptyBag
    /\ result = NoResult
    /\ contributed = [a \in Accounts |-> 0]
    /\ admin_ended = FALSE

\* the page as loaded: the wallet singleton as constructed, and localStorage
\* with or without an account stored by an earlier visit
InitWallet ==
    /\ \E stored \in BOOLEAN : dapp = [NewApp EXCEPT !.localStorage = stored]
    /\ InitContract

SpecWallet == InitWallet /\ [][NextWallet]_vars

\* ---- PrivateVotingContractHandler
\* initialize(): wallet.getConnectedAccount() is read once, at the call
handler_initialize ==
    IF connectedAccount = "null"
    THEN dapp' = Throw(dapp, "handler.initialize", FALSE,
                      <<"Failed to initialize contract", "No account connected">>)
    ELSE /\ CanEnter
         /\ dapp' = Enter(dapp, "handler.initialize", "Contract.at", FALSE)

\* this.contract = await Contract.at(...)
handler_initialize_at(c, ok) ==
    /\ BagIn(c, inFlight) /\ c.fn = "handler.initialize" /\ c.pc = "Contract.at"
    /\ dapp' = IF ok THEN [Return(dapp, c) EXCEPT !.contract = "Contract"]
                    ELSE Rethrow(dapp, c, <<"Failed to initialize contract", c.pc>>)

\* variant: the guard on this.contract is missing
handler_sends_no_guard(fn) == wallet_sendTransaction(fn, FALSE)

\* castVote and endVote: the guard, then wallet.sendTransaction
handler_sends(fn) ==
    IF contract = "null"
    THEN dapp' = Throw(dapp, fn, FALSE, <<"Contract not initialized">>)
    ELSE wallet_sendTransaction(fn, FALSE)

\* the four getters: the guard, then wallet.simulateTransaction
handler_simulates(fn) ==
    IF contract = "null"
    THEN dapp' = Throw(dapp, fn, FALSE, <<"Contract not initialized">>)
    ELSE wallet_simulateTransaction(fn, FALSE)

castVote == handler_sends("castVote")

getVote == handler_simulates("getVote")

getVoteEnded == handler_simulates("getVoteEnded")

getAdmin == handler_simulates("getAdmin")

getActiveAtBlock == handler_simulates("getActiveAtBlock")

endVote == handler_sends("endVote")

\* the wallet has been initialized; nobody is connected and the handler has
\* just been constructed
InitHandler ==
    /\ \E stored \in BOOLEAN, registered \in BOOLEAN :
          dapp = [NewApp EXCEPT !.pxe = TRUE,
                               !.initialize_succeeded = TRUE,
                               !.appResult = AppResult("initialize", "returned", <<>>),
                               !.localStorage = stored,
                               !.artifact_registered = registered]
    /\ InitContract

\* the voting page: accounts are connected and disconnected, and the
\* handler's operations are called
NextHandler ==
    \/ connectAccount(FALSE) /\ UNCHANGED contractVars
    \/ \E c \in InFlightCalls, ok \in BOOLEAN :
          connectAccount_register(c, ok) /\ UNCHANGED contractVars
    \/ connectTestAccount(FALSE) /\ UNCHANGED contractVars
    \/ \E c \in InFlightCalls, ok \in BOOLEAN :
          connectTestAccount_register(c, ok) /\ UNCHANGED contractVars
    \/ disconnectAccount /\ UNCHANGED contractVars
    \/ handler_initialize /\ UNCHANGED contractVars
    \/ \E c \in InFlightCalls, ok \in BOOLEAN :
          handler_initialize_at(c, ok) /\ UNCHANGED contractVars
    \/ castVote /\ UNCHANGED contractVars
    \/ getVote /\ UNCHANGED contractVars
    \/ getVoteEnded /\ UNCHANGED contractVars
    \/ getAdmin /\ UNCHANGED contractVars
    \/ getActiveAtBlock /\ UNCHANGED contractVars
    \/ endVote /\ UNCHANGED contractVars
    \/ \E c \in InFlightCalls, ok \in BOOLEAN :
          sendTransaction_prove(c, ok) /\ UNCHANGED contractVars
    \/ \E c \in InFlightCalls, ok \in BOOLEAN :
          sendTransaction_send(c, ok) /\ UNCHANGED contractVars
    \/ \E c \in InFlightCalls, ok \in BOOLEAN :
          simulateTransaction_simulate(c, ok) /\ UNCHANGED contractVars

SpecHandler == InitHandler /\ [][NextHandler]_vars

\* ---- useWallet: every action of the hook sets isLoading, calls the
\* wallet's method of the same name and clears isLoading when the call ends
NextHook ==
    \/ initialize(TRUE) /\ UNCHANGED contractVars
    \/ \E c \in InFlightCalls, ok \in BOOLEAN :
          initialize_createPXEService(c, ok) /\ UNCHANGED contractVars
    \/ \E c \in InFlightCalls, ok \in BOOLEAN :
          initialize_registerContract(c, ok) /\ UNCHANGED contractVars
    \/ \E c \in InFlightCalls, how \in ArtifactOutcomes :
          initialize_registerArtifact(c, how) /\ UNCHANGED contractVars
    \/ \E c \in InFlightCalls, ok \in BOOLEAN :
          initialize_getNodeInfo(c, ok) /\ UNCHANGED contractVars
    \/ createAccount(TRUE) /\ UNCHANGED contractVars
    \/ \E c \in InFlightCalls, ok \in BOOLEAN :
          createAccount_deploy(c, ok) /\ UNCHANGED contractVars
    \/ \E c \in InFlightCalls, ok \in BOOLEAN :
          createAccount_register(c, ok) /\ UNCHANGED contractVars
    \/ connectAccount(TRUE) /\ UNCHANGED contractVars
    \/ \E c \in InFlightCalls, ok \in BOOLEAN :
          connectAccount_register(c, ok) /\ UNCHANGED contractVars
    \/ connectTestAccount(TRUE) /\ UNCHANGED contractVars
    \/ \E c \in InFlightCalls, ok \in BOOLEAN :
          connectTestAccount_register(c, ok) /\ UNCHANGED contractVars
    \/ disconnectAccount /\ UNCHANGED contractVars
    \/ clearStoredAccount /\ UNCHANGED contractVars
    \/ sendTransaction(TRUE) /\ UNCHANGED contractVars
    \/ \E c \in InFlightCalls, ok \in BOOLEAN :
          sendTransaction_prove(c, ok) /\ UNCHANGED contractVars
    \/ \E c \in InFlightCalls, ok \in BOOLEAN :
          sendTransaction_send(c, ok) /\ UNCHANGED contractVars
    \/ simulateTransaction(TRUE) /\ UNCHANGED contractVars
    \/ \E c \in InFlightCalls, ok \in BOOLEAN :
          simulateTransaction_simulate(c, ok) /\ UNCHANGED contractVars

SpecHook == InitWallet /\ [][NextHook]_vars

TypeOK ==
    /\ storage.admin \in Accounts \cup {ZeroAddress}
    /\ storage.tally \in [Candidates -> Nat]
    /\ storage.vote_ended \in BOOLEAN
    /\ storage.active_at_block \in Blocks \cup {0}
    /\ initialized \in BOOLEAN
    /\ nullifiers \subseteq {vote_nullifier_at(this, a) :
                                this \in {ThisAddress, OtherAddress}, a \in Accounts}
    /\ result.op \in {"none", "constructor", "cast_vote", "end_vote", "add_to_tally_public",
                      "cast_vote_other",
                      "get_vote", "get_vote_ended", "get_admin", "get_active_at_block"}
    /\ admin_ended \in BOOLEAN
    /\ contributed \in [Accounts -> Nat]

\* ---------------------------------------------------------------- claims
PendingTxs == BagToSet(pending)

\* C1: a cast_vote transaction included while voting has ended (its staged
\* add_to_tally_public fails) leaves the nullifier set and the whole Public
\* Tally Store as they were; for a voter whose nullifier is absent the
\* failure is VotingEnded and the nullifier stays absent.
C1_AtomicRollback ==
    [][\A tx \in PendingTxs :
         ((storage.vote_ended \/ result'.outcome = "VotingEnded") /\ ProcessTx(tx))
         => /\ nullifiers' = nullifiers
            /\ storage' = storage
            /\ (vote_nullifier(tx.origin) \notin nullifiers
                  => (result'.outcome = "VotingEnded"
                      /\ vote_nullifier(tx.origin) \notin nullifiers'))]_vars

C1_Witness ==
    /\ result.op = "cast_vote"
    /\ result.outcome = "VotingEnded"
    /\ storage.vote_ended
    /\ nullifiers # {}
    /\ \E v \in Addresses : vote_nullifier(v) \notin nullifiers /\ contributed[v] = 0

\* C2: once a voter's vote has committed, a second cast_vote by that voter for
\* any candidate, included while voting is open, fails with DuplicateVote and
\* changes neither the tallies, the flag nor the nullifier set.
C2_DoubleVoteRejected ==
    [][\A tx \in PendingTxs :
         (contributed[tx.origin] >= 1 /\ ~storage.vote_ended /\ ProcessTx(tx))
         => /\ result'.outcome = "DuplicateVote"
            /\ \A c \in Candidates : storage'.tally[c] = storage.tally[c]
            /\ storage'.vote_ended = storage.vote_ended
            /\ nullifiers' = nullifiers]_vars

\* a second vote was rejected when only one voter had voted, so it was theirs
C2_Witness ==
    /\ result.op = "cast_vote"
    /\ result.outcome = "DuplicateVote"
    /\ ~storage.vote_ended
    /\ Cardinality({v \in Addresses : contributed[v] = 1}) = 1
    /\ Cardinality(nullifiers) = 1

\* C3: every voter has contributed at most one tally increment in total.
C3_OneVotePerVoter ==
    \A v \in Addresses : contributed[v] <= 1

\* a voter who voted has a further transaction of their own resolved after it
C3_Witness ==
    /\ \A v \in Addresses : contributed[v] = 1
    /\ result.op = "cast_vote"
    /\ result.outcome # "ok"

\* C4: while VoteEndedFlag is true every included cast_vote fails and no
\* step changes any Tally value.
C4_TallyFinalAfterClose ==
    [][storage.vote_ended
         => /\ \A c \in Candidates : storage'.tally[c] = storage.tally[c]
            /\ \A tx \in PendingTxs :
                 ProcessTx(tx) => result'.outcome \in {"DuplicateVote", "VotingEnded"}]_vars

\* after the close, a voter who had already voted tried again
C4_Witness ==
    /\ storage.vote_ended
    /\ result.op = "cast_vote"
    /\ result.outcome = "DuplicateVote"
    /\ \E c \in Candidates : storage.tally[c] > 0

\* C5: a cast_vote(C) that commits adds exactly 1 to Tally[C] and leaves every
\* other tally, Admin, VoteEndedFlag and ActiveAtBlock unchanged; it commits
\* only for a voter who had not voted, while the flag is false.
C5_SingleVoteAccounting ==
    [][\A tx \in PendingTxs :
         (result'.outcome = "ok" /\ ProcessTx(tx))
         => /\ contributed[tx.origin] = 0
            /\ ~storage.vote_ended
            /\ storage'.tally[TxCandidate(tx)] = storage.tally[TxCandidate(tx)] + 1
            /\ \A d \in Candidates \ {TxCandidate(tx)} : storage'.tally[d] = storage.tally[d]
            /\ storage'.admin = storage.admin
            /\ storage'.vote_ended = storage.vote_ended
            /\ storage'.active_at_block = storage.active_at_block]_vars

\* a committed vote, with another candidate already holding votes
C5_Witness ==
    /\ result.op = "cast_vote"
    /\ result.outcome = "ok"
    /\ \E c \in Candidates : storage.tally[c] = 1 /\ \A d \in Candidates \ {c} : storage.tally[d] = 0
    /\ Cardinality(nullifiers) = 1

\* C6: end_vote by a caller other than the stored Admin fails with
\* Unauthorized and changes no state; VoteEndedFlag keeps its value.
C6_UnauthorizedEnd ==
    [][\A a \in Addresses :
         (initialized /\ a # storage.admin /\ EndVote(a))
         => /\ result'.outcome = "Unauthorized"
            /\ storage' = storage
            /\ nullifiers' = nullifiers
            /\ pending' = pending
            /\ initialized' = initialized]_vars

C6_Witness ==
    /\ result.op = "end_vote"
    /\ result.outcome = "Unauthorized"
    /\ initialized
    /\ ~storage.vote_ended

\* C7: end_vote by the stored Admin while voting is open succeeds and
\* get_vote_ended() is true afterwards.
C7_AuthorizedEnd ==
    [][\A a \in Addresses :
         (initialized /\ a = storage.admin /\ ~storage.vote_ended /\ EndVote(a))
         => /\ result'.outcome = "ok"
            /\ storage'.vote_ended = TRUE]_vars

C7_Witness ==
    /\ result.op = "end_vote"
    /\ result.outcome = "ok"
    /\ get_vote_ended

\* C8: once VoteEndedFlag is true it stays true in every later state.
C8_CloseIrreversible ==
    [][storage.vote_ended => storage'.vote_ended]_vars

\* on a closed ballot a construction was attempted again and a vote is waiting
C8_Witness ==
    /\ storage.vote_ended
    /\ result.op = "constructor"
    /\ result.outcome = "AlreadyInitialized"
    /\ pending # EmptyBag

\* C9: VoteEndedFlag is true only if an end_vote called by Admin has
\* committed, and the only step that sets it is such an end_vote.
C9_CloseOnlyByAdmin ==
    /\ [](storage.vote_ended => admin_ended)
    /\ [][(~storage.vote_ended /\ storage'.vote_ended)
            => (EndVote(storage.admin) /\ result'.outcome = "ok")]_vars

\* the ballot is closed and a non-admin's end_vote has been turned away since
C9_Witness ==
    /\ storage.vote_ended
    /\ admin_ended
    /\ result.op = "end_vote"
    /\ result.outcome = "Unauthorized"

\* C10: the step that constructs the ballot with admin a leaves get_admin() = a,
\* get_vote_ended() = false, get_active_at_block() = the block number of the
\* construction and get_vote(c) = 0 for every candidate.
C10_Construction ==
    [][\A a \in Addresses, blk \in Blocks :
         (~initialized /\ Construct(a, blk))
         => /\ result'.outcome = "ok"
            /\ storage'.admin = a
            /\ storage'.vote_ended = FALSE
            /\ storage'.active_at_block = blk
            /\ \A c \in Candidates : storage'.tally[c] = 0]_vars

\* a ballot constructed after the first block, nothing else done to it yet
C10_Witness ==
    /\ result.op = "constructor"
    /\ result.outcome = "ok"
    /\ get_admin \in Addresses
    /\ get_active_at_block > 1
    /\ ~get_vote_ended
    /\ \A c \in Candidates : get_vote(c) = 0

\* the total of all tallies held in st
RECURSIVE SumOver(_, _)
SumOver(f, S) ==
    IF S = {} THEN 0
    ELSE LET x == CHOOSE y \in S : TRUE IN f[x] + SumOver(f, S \ {x})

SumTally(st) == SumOver(st.tally, Candidates)

ViewOps == {"get_vote", "get_vote_ended", "get_admin", "get_active_at_block"}

\* C11: once the ballot is constructed, no step changes Admin or ActiveAtBlock
\* (nor un-constructs the ballot), so both keep the constructor's values.
C11_ConstructionValuesImmutable ==
    [][initialized
         => /\ storage'.admin = storage.admin
            /\ storage'.active_at_block = storage.active_at_block
            /\ initialized']_vars

\* votes, a successful close and a vote rejected after it have all happened
C11_Witness ==
    /\ initialized
    /\ storage.admin \in Addresses
    /\ storage.active_at_block \in Blocks
    /\ admin_ended
    /\ storage.vote_ended
    /\ nullifiers # {}
    /\ result.op = "cast_vote"
    /\ result.outcome = "VotingEnded"
    /\ pending # EmptyBag

\* C12: of the cast_vote transactions one voter has in flight at once, at most
\* one commits: the first one included while voting is open commits and adds
\* exactly 1 to the total of the tallies, and from then on each of the others
\* can only be rejected as a duplicate.
C12_ConcurrentDuplicates ==
    /\ [](\A v \in Addresses : contributed[v] <= 1 /\ SumTally(storage) <= MaxAddress)
    /\ [][\A tx \in PendingTxs :
            (ProcessTx(tx) /\ ~storage.vote_ended /\ vote_nullifier(tx.origin) \notin nullifiers)
            => /\ result'.outcome = "ok"
               /\ SumTally(storage') = SumTally(storage) + 1
               /\ \A other \in BagToSet(pending') :
                    other.origin = tx.origin
                    => IncludeTx(storage', nullifiers', other).outcome = "DuplicateVote"]_vars

\* one of a voter's transactions committed and another was then rejected
C12_Witness ==
    /\ result.op = "cast_vote"
    /\ result.outcome = "DuplicateVote"
    /\ ~storage.vote_ended
    /\ Cardinality(nullifiers) = 1
    /\ SumTally(storage) = 1
    /\ pending = EmptyBag

\* C13: a cast_vote of a voter who has not voted, staged while voting was
\* open, commits if it is included before the close and fails with VotingEnded
\* if it is included after it; in the latter case no tally changes and the
\* voter's nullifier stays out of the nullifier set.
C13_CloseVoteRace ==
    [][\A tx \in PendingTxs :
         (ProcessTx(tx) /\ vote_nullifier(tx.origin) \notin nullifiers)
         => IF storage.vote_ended
            THEN /\ result'.outcome = "VotingEnded"
                 /\ \A c \in Candidates : storage'.tally[c] = storage.tally[c]
                 /\ vote_nullifier(tx.origin) \notin nullifiers'
            ELSE /\ result'.outcome = "ok"
                 /\ vote_nullifier(tx.origin) \in nullifiers']_vars

\* the close overtook every transaction in flight: none of them counted
C13_Witness ==
    /\ result.op = "cast_vote"
    /\ result.outcome = "VotingEnded"
    /\ admin_ended
    /\ nullifiers = {}
    /\ SumTally(storage) = 0

\* C14: the store a committed cast_vote(c) leaves behind is the store any other
\* voter who has not voted would have left by voting for c from the same
\* state, and the call it staged is the one they would have staged: it names
\* the ballot as its sender and the candidate, nothing else.
C14_VoterIndependence ==
    [][\A tx \in PendingTxs :
         (result'.outcome = "ok" /\ ProcessTx(tx))
         => /\ \A i \in 1..Len(tx.enqueued) :
                 /\ DOMAIN tx.enqueued[i] = {"fn", "msg_sender", "candidate"}
                 /\ tx.enqueued[i].msg_sender = ThisAddress
            /\ \A v \in Accounts \ {tx.origin}, blk \in Blocks :
                 vote_nullifier(v) \notin nullifiers
                 => /\ cast_vote(v, blk, TxCandidate(tx)).enqueued = tx.enqueued
                    /\ IncludeTx(storage, nullifiers, cast_vote(v, blk, TxCandidate(tx))).st
                         = storage']_vars

\* one voter's vote committed while another voter's vote for the same
\* candidate is in flight
C14_Witness ==
    /\ result.op = "cast_vote"
    /\ result.outcome = "ok"
    /\ Cardinality(nullifiers) = 1
    /\ \E tx \in PendingTxs :
         /\ vote_nullifier(tx.origin) \notin nullifiers
         /\ storage.tally[TxCandidate(tx)] = 1

\* C15: the nullifier cast_vote derives depends on the voter only: it is the
\* same for every candidate and every block, so all of a voter's transactions
\* in flight carry one nullifier, the one the set holds once the voter has
\* voted.
SameNullifierForEveryCall ==
    \A v \in Accounts, b1 \in Blocks, b2 \in Blocks, c1 \in Candidates, c2 \in Candidates :
        cast_vote(v, b1, c1).nullifiers = cast_vote(v, b2, c2).nullifiers

C15_NullifierDeterminism ==
    /\ SameNullifierForEveryCall
    /\ \A t1 \in PendingTxs, t2 \in PendingTxs :
         t1.origin = t2.origin => t1.nullifiers = t2.nullifiers
    /\ \A tx \in PendingTxs :
         contributed[tx.origin] >= 1 => tx.nullifiers \subseteq nullifiers

\* a voter who has voted has two more transactions in flight, for different
\* candidates
C15_Witness ==
    \E t1 \in PendingTxs, t2 \in PendingTxs :
        /\ t1.origin = t2.origin
        /\ TxCandidate(t1) # TxCandidate(t2)
        /\ contributed[t1.origin] = 1
        /\ t1.nullifiers \subseteq nullifiers

\* C16: a step that ends with an accessor's result changes none of the four
\* storage slots nor the nullifier set (nor what is in flight); get_vote(c)
\* returns the tally a second get_vote(c) right after it would return.
C16_ViewsArePure ==
    [][/\ result'.op \in ViewOps
          => /\ storage' = storage
             /\ nullifiers' = nullifiers
             /\ pending' = pending
             /\ initialized' = initialized
       /\ \A c \in Candidates :
            GetVote(c) => /\ result'.returned = storage.tally[c]
                          /\ result'.returned = storage'.tally[c]]_vars

\* a tally of 2 was read on a closed ballot
C16_Witness ==
    /\ result.op = "get_vote"
    /\ result.returned = 2
    /\ storage.vote_ended
    /\ Cardinality(nullifiers) = 2

\* C17: every tally starts at 0 and leaves 0 only in the step that commits a
\* cast_vote for that candidate, and get_vote(c) never fails and returns that
\* tally: 0 for a candidate nobody's committed vote was for, open or closed.
C17_UnseenCandidateIsZero ==
    /\ \A c \in Candidates : storage.tally[c] = 0
    /\ [][/\ \A c \in Candidates :
               GetVote(c) => /\ result'.outcome = "ok"
                             /\ result'.returned = storage.tally[c]
          /\ \A c \in Candidates :
               (storage.tally[c] = 0 /\ storage'.tally[c] # 0)
               => \E v \in Accounts, blk \in Blocks :
                    CastVoteCall(v, blk, c) /\ result'.outcome = "ok"]_vars

\* 0 was read on a closed ballot on which another candidate has votes
C17_Witness ==
    /\ result.op = "get_vote"
    /\ result.outcome = "ok"
    /\ result.returned = 0
    /\ storage.vote_ended
    /\ \E c \in Candidates : storage.tally[c] > 0

\* C18: along the reference scenario, V1's vote leaves get_vote(7) = 1, V2's
\* leaves it 2, V1's second vote (for 9) is rejected with DuplicateVote and
\* get_vote(9) stays 0, the admin's end_vote leaves get_vote_ended() true, and
\* V3's vote is rejected with VotingEnded with get_vote(7) still 2.
C18_ReferenceTrace ==
    [][/\ \A v \in Accounts, blk \in Blocks, c \in Candidates :
            /\ TraceVote1(v, blk, c)
                 => (result'.outcome = "ok" /\ storage'.tally[c] = 1)
            /\ TraceVote2(v, blk, c)
                 => (result'.outcome = "ok" /\ storage'.tally[c] = 2)
            /\ TraceVoteAgain(v, blk, c)
                 => /\ result'.outcome = "DuplicateVote"
                    /\ storage'.tally[c] = 0
                    /\ storage'.tally = storage.tally
            /\ TraceVoteLate(v, blk, c)
                 => /\ result'.outcome = "VotingEnded"
                    /\ storage'.tally[c] = 2
                    /\ storage'.tally = storage.tally
       /\ TraceEndVote
            => (result'.outcome = "ok" /\ storage'.vote_ended = TRUE)]_vars

\* the end of the scenario: V3 was turned away, the first candidate holds 2
C18_Witness ==
    /\ result.op = "cast_vote"
    /\ result.outcome = "VotingEnded"
    /\ get_vote_ended
    /\ \E c \in Candidates :
         get_vote(c) = 2 /\ \A d \in Candidates \ {c} : get_vote(d) = 0
    /\ \E v \in Accounts : contributed[v] = 0
    /\ Cardinality({v \in Accounts : contributed[v] = 1}) = 2

\* C19: the total of the tallies equals the number of vote nullifiers in the
\* nullifier set, and a voter's nullifier is in the set exactly when a tally
\* increment was committed for that voter.
C19_TallyNullifierBinding ==
    /\ SumTally(storage) = Cardinality(nullifiers)
    /\ \A v \in Accounts :
         contributed[v] = (IF vote_nullifier(v) \in nullifiers THEN 1 ELSE 0)

\* one vote counted, then a vote rejected after the close left both unchanged
C19_Witness ==
    /\ SumTally(storage) = 1
    /\ Cardinality(nullifiers) = 1
    /\ storage.vote_ended
    /\ result.op = "cast_vote"
    /\ result.outcome = "VotingEnded"

\* what cast_vote hands to the host: the caller's transaction, with one
\* nullifier and one enqueued add_to_tally_public for the candidate it was given
CastVoteStagesOneCall ==
    \A v \in Addresses, blk \in Blocks, c \in Candidates :
        LET tx == cast_vote(v, blk, c)
        IN /\ tx.origin = v
           /\ Cardinality(tx.nullifiers) = 1
           /\ Len(tx.enqueued) = 1
           /\ tx.enqueued[1].fn = "add_to_tally_public"
           /\ tx.enqueued[1].candidate = c

\* C20: the private phase of cast_vote(c) writes nothing to the storage slots
\* or the nullifier set; it hands the host one transaction with one nullifier
\* and one enqueued add_to_tally_public(c).  When that transaction commits,
\* one nullifier enters the set and the tally of c, and no other, goes up by 1.
C20_CastVoteFrame ==
    /\ []CastVoteStagesOneCall
    /\ [][/\ BagCardinality(pending') > BagCardinality(pending)
             => /\ storage' = storage
                /\ nullifiers' = nullifiers
                /\ \E tx \in AllTxs : pending' = pending (+) SetToBag({tx})
          /\ result'.outcome = "ok"
             => \A tx \in PendingTxs :
                  ProcessTx(tx)
                  => /\ Cardinality(nullifiers' \ nullifiers) = 1
                     /\ nullifiers \subseteq nullifiers'
                     /\ storage' = [storage EXCEPT !.tally[TxCandidate(tx)] =
                                                      storage.tally[TxCandidate(tx)] + 1]]_vars

\* one transaction committed and one more is staged
C20_Witness ==
    /\ result.op = "cast_vote"
    /\ result.outcome = "ok"
    /\ BagCardinality(pending) = 1
    /\ SumTally(storage) = 1
    /\ Cardinality(nullifiers) = 1

\* C21: add_to_tally_public is internal-only: called directly by any account
\* (any address other than the ballot's own), in any state, it is rejected and
\* storage and the nullifier set stay as they were; a tally changes only in
\* the step of a cast_vote that succeeded.
C21_TallyMutatorInternalOnly ==
    [][/\ \A a \in Accounts, c \in Candidates :
            (result'.op = "add_to_tally_public" /\ AddToTallyCall(a, c))
            => /\ a # ThisAddress
               /\ result'.outcome \in {"NotInternal", "NotInitialized"}
               /\ storage' = storage
               /\ nullifiers' = nullifiers
       /\ (storage'.tally # storage.tally => result' = Outcome("cast_vote", "ok"))]_vars

\* a direct call was rejected on an open ballot that already holds a vote
C21_Witness ==
    /\ result = Outcome("add_to_tally_public", "NotInternal")
    /\ ~storage.vote_ended
    /\ SumTally(storage) > 0

\* C22: a cast_vote transaction whose nullifier is absent from the set,
\* included while vote_ended is false, succeeds; a voter who has not voted is
\* never rejected as a duplicate, whatever other voters have done, because
\* different voters' transactions carry different nullifiers.
DistinctVotersDistinctNullifiers ==
    \A v1 \in Accounts, v2 \in Accounts, b1 \in Blocks, b2 \in Blocks,
       c1 \in Candidates, c2 \in Candidates :
        v1 # v2 => cast_vote(v1, b1, c1).nullifiers \cap cast_vote(v2, b2, c2).nullifiers = {}

C22_NoSpuriousRejection ==
    /\ []DistinctVotersDistinctNullifiers
    /\ [][\A tx \in PendingTxs :
            /\ (~storage.vote_ended /\ tx.nullifiers \cap nullifiers = {} /\ ProcessTx(tx))
               => result'.outcome = "ok"
            /\ (contributed[tx.origin] = 0 /\ result'.outcome = "DuplicateVote")
               => ~ProcessTx(tx)]_vars

\* the second of two voters was accepted after the first had voted
C22_Witness ==
    /\ result = Outcome("cast_vote", "ok")
    /\ Cardinality(nullifiers) = 2
    /\ \A a \in Addresses : contributed[a] = 1

\* C23: a cast_vote transaction of a voter who has already voted, included
\* after voting was closed, fails as DuplicateVote, not as VotingEnded: the
\* nullifier is checked before the enqueued add_to_tally_public reads
\* vote_ended, so VotingEnded is only ever reported for an absent nullifier.
C23_CheckOrdering ==
    [][\A tx \in PendingTxs :
         /\ (storage.vote_ended /\ contributed[tx.origin] > 0 /\ ProcessTx(tx))
            => result'.outcome = "DuplicateVote"
         /\ (result'.outcome = "VotingEnded" /\ ProcessTx(tx))
            => tx.nullifiers \cap nullifiers = {}]_vars

\* a voter who had voted was rejected as a duplicate on a closed ballot
C23_Witness ==
    /\ result = Outcome("cast_vote", "DuplicateVote")
    /\ storage.vote_ended
    /\ SumTally(storage) = 1
    /\ pending = EmptyBag

\* C24: end_vote called by the admin on a ballot that is already closed
\* succeeds and changes nothing: every storage slot, the nullifier set and
\* what is in flight are as before, and vote_ended is still true.
C24_RepeatedClose ==
    [][\A a \in Accounts :
         (storage.vote_ended /\ a = storage.admin /\ EndVote(a))
         => /\ result' = Outcome("end_vote", "ok")
            /\ storage' = storage
            /\ storage'.vote_ended
            /\ nullifiers' = nullifiers
            /\ pending' = pending
            /\ initialized' = initialized]_vars

\* the admin's end_vote succeeded on the ballot that was closed from the start
C24_Witness ==
    /\ result = Outcome("end_vote", "ok")
    /\ storage.vote_ended
    /\ storage.admin \in Accounts

\* C25: a successful end_vote writes vote_ended and nothing else: every
\* tally, admin, active_at_block and the nullifier set are the same before and
\* after it, whether or not votes were cast before.
C25_EndVoteFrame ==
    [][(result'.op = "end_vote" /\ result'.outcome = "ok")
         => \A a \in Addresses :
              EndVote(a)
              => /\ storage' = [storage EXCEPT !.vote_ended = TRUE]
                 /\ \A c \in Candidates : storage'.tally[c] = storage.tally[c]
                 /\ storage'.admin = storage.admin
                 /\ storage'.active_at_block = storage.active_at_block
                 /\ nullifiers' = nullifiers
                 /\ pending' = pending]_vars

\* the ballot was closed after a vote had been committed
C25_Witness ==
    /\ result = Outcome("end_vote", "ok")
    /\ storage.vote_ended
    /\ SumTally(storage) >= 1
    /\ nullifiers # {}

\* C26: in every step each tally stays the same or goes up by exactly 1, and
\* the tally map keeps its entries: no tally decreases or disappears.
C26_TallyMonotone ==
    [][/\ DOMAIN storage'.tally = DOMAIN storage.tally
       /\ \A c \in Candidates :
            storage'.tally[c] \in {storage.tally[c], storage.tally[c] + 1}]_vars

\* one candidate's tally went up twice while the other's stayed at zero
C26_Witness ==
    \E c \in Candidates :
        /\ storage.tally[c] = 2
        /\ \A d \in Candidates \ {c} : storage.tally[d] = 0

\* C27: the nullifier set only grows, and the nullifier of a voter whose
\* cast_vote committed is in it from then on, so every later cast_vote
\* transaction of that voter fails and changes nothing, end_vote or other
\* votes in between or not.  A cast_vote fails with VotingEnded only on a
\* closed ballot, a closed ballot stays closed, and on it every cast_vote
\* transaction fails.
C27_NullifierPermanence ==
    /\ [](/\ result.outcome = "VotingEnded" => storage.vote_ended
          /\ \A a \in Accounts : contributed[a] > 0 => vote_nullifier(a) \in nullifiers)
    /\ [][/\ nullifiers \subseteq nullifiers'
          /\ storage.vote_ended => storage'.vote_ended
          /\ \A tx \in PendingTxs :
               ((storage.vote_ended \/ contributed[tx.origin] > 0) /\ ProcessTx(tx))
               => /\ result'.outcome \in {"DuplicateVote", "VotingEnded"}
                  /\ storage' = storage
                  /\ nullifiers' = nullifiers]_vars

\* both voters voted, the ballot was closed, and then one of them was
\* rejected again
C27_Witness ==
    /\ result = Outcome("cast_vote", "DuplicateVote")
    /\ storage.vote_ended
    /\ Cardinality(nullifiers) = 2
    /\ \A a \in Addresses : contributed[a] = 1

\* C28: with a second deployment of the ballot on the same ledger, sharing
\* the nullifier set, the nullifier a voter's cast_vote records in one ballot
\* is never the one it records in the other.  So on this ballot, while it is
\* open, a cast_vote is rejected only if its voter has voted on this ballot,
\* whatever they did on the other; an accepted cast_vote is the first of its
\* voter here and records that voter's nullifier for this ballot; nobody
\* votes here twice; and a cast_vote on the other ballot records or finds
\* only nullifiers of the other ballot and changes nothing here.
NullifiersDifferPerBallot ==
    \A v \in Accounts, blk \in Blocks, c \in Candidates :
        /\ cast_vote(v, blk, c) = cast_vote_at(ThisAddress, v, blk, c)
        /\ cast_vote_at(ThisAddress, v, blk, c).nullifiers
             \cap cast_vote_at(OtherAddress, v, blk, c).nullifiers = {}

C28_PerBallotNullifiers ==
    /\ []NullifiersDifferPerBallot
    /\ [][/\ (/\ initialized
              /\ ~storage.vote_ended
              /\ result'.op = "cast_vote"
              /\ result'.outcome # "ok")
             => \A v \in Addresses, blk \in Blocks, c \in Candidates :
                  CastVoteCall(v, blk, c)
                  => (contributed[v] > 0 /\ result'.outcome = "DuplicateVote")
          /\ result' = Outcome("cast_vote", "ok")
             => \E v \in Addresses :
                  /\ contributed[v] = 0
                  /\ contributed' = [contributed EXCEPT ![v] = 1]
                  /\ nullifiers' = nullifiers \cup {vote_nullifier(v)}
          /\ \A v \in Addresses : contributed'[v] <= 1
          /\ result'.op = "cast_vote_other"
             => /\ storage' = storage
                /\ contributed' = contributed
                /\ \A v \in Addresses :
                     vote_nullifier(v) \in nullifiers' <=> vote_nullifier(v) \in nullifiers
                /\ IF result'.outcome = "ok"
                   THEN \E v \in Addresses :
                          /\ vote_nullifier_at(OtherAddress, v) \notin nullifiers
                          /\ nullifiers' = nullifiers \cup {vote_nullifier_at(OtherAddress, v)}
                   ELSE /\ nullifiers' = nullifiers
                        /\ \E v \in Addresses :
                             vote_nullifier_at(OtherAddress, v) \in nullifiers]_vars

\* a voter who had voted in the other ballot has now voted in this one
C28_Witness ==
    /\ result = Outcome("cast_vote", "ok")
    /\ \E v \in Addresses :
         /\ contributed[v] = 1
         /\ {vote_nullifier(v), vote_nullifier_at(OtherAddress, v)} \subseteq nullifiers
         /\ Cardinality(nullifiers) = 2

\* C29: the constructor takes effect exactly once.  Until it has, storage is
\* unwritten, the nullifier set is empty and no cast_vote or end_vote
\* succeeds; once it has, the ballot stays constructed, and a further
\* constructor call fails and leaves admin, vote_ended, active_at_block (and
\* the tallies) as they were.  admin and active_at_block change in no step
\* but the one that constructs the ballot.  (A step that ends with a
\* constructor result and leaves what is in flight alone is a constructor
\* call: staging a vote leaves the last result in place but adds to pending.)
C29_ConstructionOrdering ==
    /\ [](~initialized => /\ storage = EmptyStorage
                          /\ nullifiers = {}
                          /\ pending = EmptyBag
                          /\ result.outcome # "ok")
    /\ [][/\ initialized => initialized'
          /\ (~initialized /\ result'.outcome = "ok") => result'.op = "constructor"
          /\ (storage'.admin # storage.admin
                \/ storage'.active_at_block # storage.active_at_block)
             => (~initialized /\ initialized')
          /\ (initialized /\ result'.op = "constructor" /\ pending' = pending)
             => /\ result' = Outcome("constructor", "AlreadyInitialized")
                /\ storage' = storage
                /\ nullifiers' = nullifiers]_vars

\* a second constructor call was rejected on a ballot that holds a vote
C29_Witness ==
    /\ result = Outcome("constructor", "AlreadyInitialized")
    /\ initialized
    /\ SumTally(storage) = 1
    /\ storage.admin \in Addresses

\* C30: whenever two cast_vote transactions of two different voters, neither
\* of whom has voted, are in flight on an open ballot, including them in
\* either order succeeds for both and ends in the same storage (the same
\* tallies) and the same nullifier set, whether they name the same candidate
\* or different ones.
C30_VotesCommute ==
    \A t1 \in PendingTxs, t2 \in PendingTxs :
        (/\ t1.origin # t2.origin
         /\ ~storage.vote_ended
         /\ (t1.nullifiers \cup t2.nullifiers) \cap nullifiers = {})
        => LET a == IncludeTx(storage, nullifiers, t1)
               ab == IncludeTx(a.st, a.nulls, t2)
               b == IncludeTx(storage, nullifiers, t2)
               ba == IncludeTx(b.st, b.nulls, t1)
           IN /\ a.outcome = "ok" /\ ab.outcome = "ok"
              /\ b.outcome = "ok" /\ ba.outcome = "ok"
              /\ ab.st.tally = ba.st.tally
              /\ ab.st = ba.st
              /\ ab.nulls = ba.nulls
              /\ ab.nulls = nullifiers \cup t1.nullifiers \cup t2.nullifiers

\* two voters' transactions, for different candidates, were in flight
\* together and both have been committed
C30_Witness ==
    /\ result = Outcome("cast_vote", "ok")
    /\ pending = EmptyBag
    /\ ~storage.vote_ended
    /\ Cardinality(nullifiers) = 2
    /\ \E c \in Candidates, d \in Candidates :
         c # d /\ storage.tally[c] = 1 /\ storage.tally[d] = 1

\* C31: under a host that is fair to every transaction, each cast_vote or
\* end_vote transaction in flight is eventually out of flight, and
\* eventually nothing is in flight; a transaction leaves by committing or by
\* failing with DuplicateVote, VotingEnded or Unauthorized, in the one step
\* that includes it; and every transaction in flight can be included right
\* away, whatever else is in flight.
C31_EveryTransactionResolves ==
    /\ \A tx \in LiveTxs : BagIn(tx, pending) ~> ~BagIn(tx, pending)
    /\ <>(pending = EmptyBag)
    /\ [](\A tx \in PendingTxs :
            IF IsCastVoteTx(tx) THEN ENABLED (ProcessCastVote(tx) /\ UNCHANGED dapp)
                                ELSE ENABLED (ProcessEndVote(tx) /\ UNCHANGED dapp))
    /\ [][/\ BagCardinality(pending') = BagCardinality(pending) - 1
          /\ result'.outcome \in {"ok", "DuplicateVote", "VotingEnded", "Unauthorized"}]_vars

\* everything that was in flight has resolved: the admin's end_vote
\* committed and a cast_vote then failed with VotingEnded
C31_Witness ==
    /\ pending = EmptyBag
    /\ admin_ended
    /\ result = Outcome("cast_vote", "VotingEnded")

\* C32: a call of AztecWallet.sendTransaction or simulateTransaction made
\* while no account is connected throws "No account connected" and leaves
\* nothing in flight, so nothing is proved, sent or simulated for it;
\* disconnectAccount() leaves no account connected; and from then on an
\* account is connected again only by the return of a createAccount,
\* connectAccount or connectTestAccount call.
C32_ConnectionPrecondition ==
    [][/\ (connectedAccount = "null" /\ sendTransaction(FALSE))
            => /\ appResult' = AppResult("sendTransaction", "threw", <<"No account connected">>)
               /\ inFlight' = inFlight
       /\ (connectedAccount = "null" /\ simulateTransaction(FALSE))
            => /\ appResult' = AppResult("simulateTransaction", "threw", <<"No account connected">>)
               /\ inFlight' = inFlight
       /\ disconnectAccount => connectedAccount' = "null"
       /\ (connectedAccount = "null" /\ connectedAccount' # "null")
            => /\ appResult'.ev = "returned"
               /\ appResult'.fn \in {"createAccount", "connectAccount", "connectTestAccount"}]_vars

\* an account was connected and a transaction of it is still being sent;
\* the account has been disconnected since, and a new sendTransaction call
\* has just been refused
C32_Witness ==
    /\ connectedAccount = "null"
    /\ appResult = AppResult("sendTransaction", "threw", <<"No account connected">>)
    /\ \E c \in InFlightCalls : c.fn = "sendTransaction" /\ c.pc = "send"

\* C33: as long as no AztecWallet.initialize() call has returned, a call of
\* createAccount, connectAccount, connectTestAccount, registerContract or
\* getPXE throws "Wallet not initialized", leaves nothing in flight and
\* leaves no account connected.
C33_InitializationPrecondition ==
    [][~initialize_succeeded =>
         /\ createAccount(FALSE)
              => appResult' = AppResult("createAccount", "threw", <<"Wallet not initialized">>)
         /\ connectAccount(FALSE)
              => appResult' = AppResult("connectAccount", "threw", <<"Wallet not initialized">>)
         /\ connectTestAccount(FALSE)
              => appResult' = AppResult("connectTestAccount", "threw", <<"Wallet not initialized">>)
         /\ registerContract
              => appResult' = AppResult("registerContract", "threw", <<"Wallet not initialized">>)
         /\ getPXE
              => appResult' = AppResult("getPXE", "threw", <<"Wallet not initialized">>)
         /\ (createAccount(FALSE) \/ connectAccount(FALSE) \/ connectTestAccount(FALSE)
                \/ registerContract \/ getPXE)
              => /\ connectedAccount' = connectedAccount
                 /\ inFlight' = inFlight
                 /\ ~isConnected']_vars

\* C34: a castVote, getVote, getVoteEnded, getAdmin, getActiveAtBlock or
\* endVote call made while the handler's contract is null throws "Contract
\* not initialized" and leaves nothing in flight, so nothing is sent or
\* simulated for it; the contract stops being null only when a handler
\* initialize() call returns; and an initialize() call made while no account
\* is connected throws, leaves nothing in flight and leaves the contract as
\* it was.
C34_HandlerGating ==
    [][/\ contract = "null" =>
            /\ castVote => appResult' = AppResult("castVote", "threw", <<"Contract not initialized">>)
            /\ getVote => appResult' = AppResult("getVote", "threw", <<"Contract not initialized">>)
            /\ getVoteEnded
                 => appResult' = AppResult("getVoteEnded", "threw", <<"Contract not initialized">>)
            /\ getAdmin => appResult' = AppResult("getAdmin", "threw", <<"Contract not initialized">>)
            /\ getActiveAtBlock
                 => appResult' = AppResult("getActiveAtBlock", "threw", <<"Contract not initialized">>)
            /\ endVote => appResult' = AppResult("endVote", "threw", <<"Contract not initialized">>)
            /\ (castVote \/ getVote \/ getVoteEnded \/ getAdmin \/ getActiveAtBlock \/ endVote)
                 => inFlight' = inFlight /\ contract' = "null"
       /\ (contract = "null" /\ contract' # "null")
            => appResult' = AppResult("handler.initialize", "returned", <<>>)
       /\ (connectedAccount = "null" /\ handler_initialize)
            => /\ appResult' = AppResult("handler.initialize", "threw",
                                         <<"Failed to initialize contract", "No account connected">>)
               /\ inFlight' = inFlight
               /\ contract' = contract]_vars

\* an account is connected and an initialize() call of the handler is still
\* waiting for Contract.at, so the contract is null, and a castVote call has
\* just been refused
C34_Witness ==
    /\ contract = "null"
    /\ isConnected
    /\ appResult = AppResult("castVote", "threw", <<"Contract not initialized">>)
    /\ \E c \in InFlightCalls : c.fn = "handler.initialize"

\* C35: registerArtifact never throws; when the registration of the private
\* voting artifact fails inside AztecWallet.initialize, the call stays in
\* flight and goes on to getNodeInfo with isInitialized() true; initialize
\* throws only when createPXEService, the sponsored fee contract's
\* registration or getNodeInfo rejects; and when getNodeInfo resolves it
\* returns, with isInitialized() true.
C35_RegistrationFailureNonFatal ==
    /\ \A p \in BOOLEAN, ok \in BOOLEAN : ~registerArtifact(p, ok).threw
    /\ [][/\ appResult' = AppResult("registerArtifact", "caught", <<>>)
               => /\ pxe'
                  /\ BagCardinality(inFlight') = BagCardinality(inFlight)
                  /\ \E c \in BagToSet(inFlight') : c.fn = "initialize" /\ c.pc = "getNodeInfo"
          /\ (appResult'.fn = "initialize" /\ appResult'.ev = "threw")
               => appResult'.err[2] \in {"createPXEService", "registerContract", "getNodeInfo"}
          /\ \A c \in InFlightCalls :
                initialize_getNodeInfo(c, TRUE)
                  => /\ appResult' = AppResult("initialize", "returned", <<>>)
                     /\ pxe'
                     /\ initialize_succeeded']_vars

\* an initialize() call has just returned although the PXE has never been
\* given the private voting contract: its registration failed
C35_Witness ==
    /\ appResult = AppResult("initialize", "returned", <<>>)
    /\ initialize_succeeded
    /\ isInitialized
    /\ ~artifact_registered

\* C36: isLoading is true while an action of the hook is in flight, and
\* false when none is.
C36_LoadingFlag ==
    /\ inFlight # EmptyBag => isLoading
    /\ inFlight = EmptyBag => ~isLoading

====
